---- MODULE Spec2Model ----
(***************************************************************************)
(* A model of the two subsystems of Background_DS1820_Sensing:             *)
(*   - SensorDiscovery (src/Dallas_Discovery/SensorDiscovery.h): the       *)
(*     blocking binary-tree enumeration of the devices on a 1-wire bus;    *)
(*   - AsyncTemperatureReader (src/DS1820_Demo/AsyncTemperatures.h): the   *)
(*     instruction-stack interpreter pumped by the TIMER2 interrupt.       *)
(* SearchSpec runs the first, Spec the second.                             *)
(***************************************************************************)
EXTENDS Integers, Sequences, FiniteSets, TLC

VARIABLES
  \* ---- SensorDiscovery: the object's fields
  inputBuf,      \* the caller's ID buffer, bit i of the ID at index i
  fork,          \* the fork-point bitmap, bit i at index i
  firstTime,     \* bool firstTime
  \* ---- SensorDiscovery: the bus and what a test harness observes
  begun,         \* begin() has been called
  devices,       \* the IDs of the devices wired to the bus
  found,         \* the IDs returned with result 0 since begin(), in order
  calls,         \* findNextDevice() calls since begin()
  aborts,        \* calls since begin() that ended on a bus fault
  last,          \* what the last findNextDevice() call did and returned
  \* ---- AsyncTemperatureReader: the object's fields
  theCode,       \* the live slots theCode[0 .. topOfStack-1] of the instruction stack
  topOfStack,    \* byte topOfStack
  status,        \* uint8_t status
  receiveRegister,
  deviceAddr,    \* the 8 bytes deviceAddr points to
  idByteIndex,
  sPad,          \* the caller's 9-byte buffer sPad points to
  stackHighTide,
  busLow,        \* the pin is an output driving the line low (DDRB bit set, PORTB bit clear)
  \* ---- AsyncTemperatureReader: the bus and what a test harness observes
  devPad,        \* the 9 bytes the simulated device answers a scratchpad read with
  slot,          \* read slots since the session started
  log,           \* bus primitives, yields and status clearings since the session started
  session,       \* the entry point that started the session in flight
  sessHigh,      \* the highest topOfStack since the session started
  sawAbsent,     \* a presence sample of this session read 1
  waits,         \* busy samples of this session that read 0
  holdoff,       \* what the last doTimeslice() returned (OCR2A)
  pushDropped,   \* a push was dropped for overflow
  popEmpty,      \* a pop was made on an empty stack
  padOverrun,    \* a store was made outside the 9 bytes of sPad
  spins,         \* a doTimeslice() call repeats one instruction on an unchanged stack
  stores,        \* the indices of sPad stored to since the session started, in order
  lastCall,      \* the last operation called
  startCode,     \* the stack as the session's entry point left it
  lastOp,        \* the last opcode doTimeslice() popped in this session, 0 if none
  steps          \* opcodes popped by the last doTimeslice() call

searchVars == <<inputBuf, fork, firstTime, begun, devices, found, calls, aborts, last>>

asyncVars == <<theCode, topOfStack, status, receiveRegister, deviceAddr, idByteIndex, sPad,
               stackHighTide, busLow, devPad, slot, log, session, sessHigh, sawAbsent, waits,
               holdoff, pushDropped, popEmpty, padOverrun, spins, stores, lastCall,
               startCode, lastOp, steps>>

vars == <<searchVars, asyncVars>>

(***************************************************************************)
(* Bounds of the search model.  The program's IDs have 64 bits; the model  *)
(* enumerates every set of 1..MaxDevices devices over IdBits-bit IDs.      *)
(***************************************************************************)
IdBits == 3
MaxDevices == 3
MaxCalls == 5
MaxAborts == 1

Depths == 0..(IdBits - 1)
IDs == [Depths -> {0, 1}]
ZeroBits == [i \in Depths |-> 0]

\* SEARCHROM, the command byte that opens a search pass
SEARCHROM == 240

\* setBitInID / unsetBitInID / isBitInID and the fork-point twins
setBit(bits, i) == [bits EXCEPT ![i] = 1]
unsetBit(bits, i) == [bits EXCEPT ![i] = 0]
isBit(bits, i) == bits[i] # 0

\* findLastForkPoint, altered: the scan misses the "none" case.
findLastForkPoint_none0(fk) ==
  IF \E i \in Depths : isBit(fk, i)
  THEN CHOOSE i \in Depths : isBit(fk, i) /\ \A j \in Depths : j > i => ~isBit(fk, j)
  ELSE 0

\* findLastForkPoint(): the highest set fork bit, -1 when there is none
findLastForkPoint(fk) ==
  IF \E i \in Depths : isBit(fk, i)
  THEN CHOOSE i \in Depths : isBit(fk, i) /\ \A j \in Depths : j > i => ~isBit(fk, j)
  ELSE -1

(***************************************************************************)
(* The bus seen by the search.  cont is the set of devices still in        *)
(* contention; a read slot returns the wired-AND of what they send.        *)
(* fault names what the bus does wrong during one call: nothing, "absent"  *)
(* (no presence pulse at Reset) or "conflict" (both reads of the named     *)
(* round return 1).                                                        *)
(***************************************************************************)
NoFault == [kind |-> "none", round |-> 0]
Faults == {NoFault, [kind |-> "absent", round |-> 0]}
            \cup {[kind |-> "conflict", round |-> d] : d \in Depths}

WiredAnd(S) == IF \E b \in S : b = 0 THEN 0 ELSE 1

\* readBit(): the first read of a round carries the ID bits, the second their complements
readBit(cont, searchDepth, complement, fault) ==
  IF fault.kind = "conflict" /\ fault.round = searchDepth THEN 1
  ELSE WiredAnd({IF complement THEN 1 - id[searchDepth] ELSE id[searchDepth] : id \in cont})

\* Reset(): 0 when some device answers with a presence pulse, 1 otherwise
BusReset(devs, fault) == IF fault.kind = "absent" \/ devs = {} THEN 1 ELSE 0

\* sendBit(b): the devices whose bit differs drop out
sendBit(cont, searchDepth, b) == {id \in cont : id[searchDepth] = b}

\* case 0, altered: the 0 branch is taken without recording the fork.
case00_nofork(st, searchDepth, frozenTreeDepth) ==
  IF searchDepth <= frozenTreeDepth
  THEN [st EXCEPT !.chooseRight = IF isBit(st.inputBuf, searchDepth) THEN 1 ELSE 0]
  ELSE [st EXCEPT !.chooseRight = 0]

\* case 0 of the switch: the devices disagree at this depth
case00(st, searchDepth, frozenTreeDepth) ==
  IF searchDepth <= frozenTreeDepth
  THEN [st EXCEPT !.chooseRight = IF isBit(st.inputBuf, searchDepth) THEN 1 ELSE 0]
  ELSE [st EXCEPT !.chooseRight = 0, !.fork = setBit(st.fork, searchDepth)]

\* case 3, altered: the fork is recorded before the call gives up.
case11_fork(st, searchDepth) ==
  [st EXCEPT !.res = 2, !.conflictAt = searchDepth, !.fork = setBit(st.fork, searchDepth)]

\* case 3 of the switch: nobody answered, return 2
case11(st, searchDepth) ==
  [st EXCEPT !.res = 2, !.conflictAt = searchDepth]

\* the tail of a round, altered: the chosen bit is sent but not recorded.
chooseAndSend_unrecorded(st, searchDepth) ==
  [st EXCEPT !.cont = sendBit(st.cont, searchDepth, st.chooseRight),
             !.written = st.written \cup {searchDepth},
             !.sent = st.sent + 1, !.ops = st.ops + 1]

\* the tail of a round: record the chosen bit and send it back
chooseAndSend(st, searchDepth) ==
  IF st.chooseRight = 1
  THEN [st EXCEPT !.inputBuf = setBit(st.inputBuf, searchDepth),
                  !.cont = sendBit(st.cont, searchDepth, 1),
                  !.written = st.written \cup {searchDepth},
                  !.sent = st.sent + 1, !.ops = st.ops + 1]
  ELSE [st EXCEPT !.inputBuf = unsetBit(st.inputBuf, searchDepth),
                  !.cont = sendBit(st.cont, searchDepth, 0),
                  !.written = st.written \cup {searchDepth},
                  !.sent = st.sent + 1, !.ops = st.ops + 1]

\* the for loop of findNextDevice, from round searchDepth on
RECURSIVE searchRounds(_, _, _, _)
searchRounds(st, searchDepth, frozenTreeDepth, fault) ==
  IF searchDepth >= IdBits THEN [st EXCEPT !.res = 0]
  ELSE
    LET b1 == readBit(st.cont, searchDepth, FALSE, fault)
        b0 == readBit(st.cont, searchDepth, TRUE, fault)
        response == 2 * b1 + b0
        rd == [st EXCEPT !.ops = st.ops + 2]
    IN  IF response = 3 THEN case11(rd, searchDepth)
        ELSE
          LET chosen == CASE response = 2 -> [rd EXCEPT !.chooseRight = 1]
                          [] response = 1 -> [rd EXCEPT !.chooseRight = 0]
                          [] OTHER -> case00([rd EXCEPT !.zeros = @ \cup {searchDepth}],
                                             searchDepth, frozenTreeDepth)
          IN  searchRounds(chooseAndSend(chosen, searchDepth), searchDepth + 1,
                           frozenTreeDepth, fault)

\* the bits at positions above depth cleared (the loop of lines 146-148)
clearRightOf(bits, depth) == [i \in Depths |-> IF i > depth THEN 0 ELSE bits[i]]

\* findNextDevice(): the whole call, on the search state s, with devices devs on the bus
findNextDevice(s, devs, fault) ==
  LET st0 == [inputBuf |-> s.inputBuf, fork |-> s.fork, firstTime |-> s.firstTime,
              cont |-> {}, chooseRight |-> 42, res |-> 255, cmd |-> 0,
              ops |-> 0, sent |-> 0, written |-> {}, conflictAt |-> -1, resetSaw |-> -1,
              zeros |-> {}]
      last_fork == findLastForkPoint(s.fork)
  IN
  IF ~s.firstTime /\ last_fork < 0 THEN [st0 EXCEPT !.res = 1]
  ELSE
    LET st1 == IF s.firstTime
               THEN [st0 EXCEPT !.firstTime = FALSE]
               ELSE [st0 EXCEPT
                       !.inputBuf = setBit(clearRightOf(s.inputBuf, last_fork), last_fork),
                       !.fork = unsetBit(s.fork, last_fork)]
        frozenTreeDepth == IF s.firstTime THEN -1 ELSE last_fork + 1
        resp == BusReset(devs, fault)
        st2 == [st1 EXCEPT !.ops = 1, !.resetSaw = resp]
    IN  IF resp # 0 THEN [st2 EXCEPT !.res = resp]
        ELSE searchRounds([st2 EXCEPT !.cont = devs, !.cmd = SEARCHROM, !.ops = 1 + 8],
                          0, frozenTreeDepth, fault)

NoCall == [res |-> 255, ops |-> 0, cmd |-> 0, sent |-> 0, written |-> {}, conflictAt |-> -1,
           cont |-> {}, zeros |-> {},
           resetSaw |-> -1, preBuf |-> ZeroBits, preFork |-> ZeroBits, preFirst |-> FALSE]

DeviceSets == {D \in SUBSET IDs : Cardinality(D) >= 1 /\ Cardinality(D) <= MaxDevices}

\* the interpreter is not part of the search engine's runs
AsyncIdle ==
  /\ theCode = <<>> /\ topOfStack = 0 /\ status = 0 /\ receiveRegister = 0
  /\ deviceAddr = <<>> /\ idByteIndex = 0 /\ sPad = <<>> /\ stackHighTide = 0
  /\ busLow = FALSE
  /\ devPad = <<>> /\ slot = 0 /\ log = <<>> /\ waits = 0
  /\ session = "none" /\ sessHigh = 0 /\ sawAbsent = FALSE /\ holdoff = 255
  /\ pushDropped = FALSE /\ popEmpty = FALSE /\ padOverrun = FALSE /\ spins = FALSE
  /\ stores = <<>>
  /\ lastCall = "none" /\ startCode = <<>> /\ lastOp = 0 /\ steps = 0

SearchInit ==
  /\ AsyncIdle
  /\ devices \in DeviceSets
  /\ begun = FALSE
  /\ inputBuf = ZeroBits
  /\ fork = ZeroBits
  /\ firstTime = FALSE
  /\ found = <<>>
  /\ calls = 0
  /\ aborts = 0
  /\ last = NoCall

\* begin(deviceID)
Begin ==
  /\ inputBuf' = ZeroBits
  /\ fork' = ZeroBits
  /\ firstTime' = TRUE
  /\ begun' = TRUE
  /\ found' = <<>>
  /\ calls' = 0
  /\ aborts' = 0
  /\ last' = NoCall
  /\ UNCHANGED devices
  /\ UNCHANGED asyncVars

\* one findNextDevice() call, on a bus that is consistent or has one fault
FindNextDevice ==
  /\ begun
  /\ calls < MaxCalls
  /\ \E fault \in Faults :
       /\ fault # NoFault => aborts < MaxAborts
       /\ \E r \in {findNextDevice([inputBuf |-> inputBuf, fork |-> fork,
                                     firstTime |-> firstTime], devices, fault)} :
              /\ inputBuf' = r.inputBuf
              /\ fork' = r.fork
              /\ firstTime' = r.firstTime
              /\ found' = IF r.res = 0 THEN Append(found, r.inputBuf) ELSE found
              /\ calls' = calls + 1
              /\ aborts' = IF r.res = 2 \/ r.resetSaw = 1 THEN aborts + 1 ELSE aborts
              /\ last' = [res |-> r.res, ops |-> r.ops, cmd |-> r.cmd, sent |-> r.sent,
                          written |-> r.written, conflictAt |-> r.conflictAt,
                          cont |-> r.cont, zeros |-> r.zeros,
                          resetSaw |-> r.resetSaw, preBuf |-> inputBuf,
                          preFork |-> fork, preFirst |-> firstTime]
  /\ UNCHANGED <<begun, devices>>
  /\ UNCHANGED asyncVars

SearchNext == Begin \/ FindNextDevice

SearchSpec == SearchInit /\ [][SearchNext]_vars

(***************************************************************************)
(* AsyncTemperatureReader.                                                 *)
(***************************************************************************)
stackSize == 20

\* OneWire commands
STARTCONVO == 68
READSCRATCH == 190
SELECTDEVICE == 85
SKIPROMWILDCARD == 204

\* Status codes
StillBusy == 1
NoDeviceOnBus == 2
DevicesAreBusy == 4

\* The opcodes of the interpreter
BusLow == 1
ReadRemainingBits == 2
SendRemainingBits == 3
SendRemainingIDBytes == 4
WaitForBusRelease == 5
BusRelease == 6
ClearBusyStatus == 7
BusSample == 8
TestTimings == 9
ReadScratchPad == 10
StartIDSend == 11
Reset == 12
Yield == 13

\* Protocol delays as TIMER2 tics
Micros55 == 8
Micros60 == 10
Micros64 == 10
Micros70 == 11
Micros410 == 96
Micros480 == 110

(***************************************************************************)
(* Bounds and inputs of the interpreter model.                             *)
(***************************************************************************)
MaxLog == 600        \* events recorded per session
MaxTimingLog == 24   \* events recorded per timing-test session
MaxWaits == 2        \* busy samples per session at which a device still holds the line low
MaxRepeats == 3      \* timing-test repeat counts 0..MaxRepeats, besides one above 255
MaxSteps == 16       \* opcodes of one doTimeslice() call taken in one step of the model

Addresses == { <<40, 255, 100, 30, 15, 140, 129, 76>>,
               <<16, 1, 2, 4, 8, 0, 85, 170>> }

\* what a device may hold; nine bytes of 255 is also what a floating line reads
ScratchPads == { <<80, 5, 75, 70, 127, 255, 12, 16, 28>>,
                 <<255, 255, 255, 255, 255, 255, 255, 255, 255>> }

Repeats == (0..MaxRepeats) \cup {256}

NoAddress == <<0, 0, 0, 0, 0, 0, 0, 0>>
EmptyPad == <<0, 0, 0, 0, 0, 0, 0, 0, 0>>

\* the element of a one-element set: Val({e : x \in {v}}) is e with v worked out once
Val(S) == CHOOSE x \in S : TRUE

\* byte arithmetic
Byte(n) == n % 256
Pow2(k) == CASE k = 0 -> 1 [] k = 1 -> 2 [] k = 2 -> 4 [] k = 3 -> 8
             [] k = 4 -> 16 [] k = 5 -> 32 [] k = 6 -> 64 [] OTHER -> 128
BitOf(v, k) == (v \div Pow2(k)) % 2
\* v | mask and v & ~mask for a one-bit mask
OrMask(v, mask) == IF (v \div mask) % 2 = 1 THEN v ELSE v + mask
AndNotMask(v, mask) == IF (v \div mask) % 2 = 1 THEN v - mask ELSE v

\* the three electrical moves, as a recording bus sees them
emit(m, kind, arg) == [m EXCEPT !.log = Append(m.log, <<kind, arg>>)]
pullBusLow(m) == [emit(m, "low", 0) EXCEPT !.busLow = TRUE]
releaseBus(m) == [emit(m, "release", 0) EXCEPT !.busLow = FALSE]
sampleBus(m, level) == emit(m, "sample", level)

\* what the simulated device puts on the line in the next read slot
deviceBit(m) ==
  IF m.slot < 72 THEN BitOf(m.devPad[(m.slot \div 8) + 1], m.slot % 8) ELSE 1

\* flushStack, altered: the stack is not emptied.
flushStack_keep(m) == m

\* flushStack()
flushStack(m) == [m EXCEPT !.top = 0, !.code = <<>>]

\* push(opCode)
push(mm, opCode) ==
  Val({ (
      IF m.top >= stackSize
      THEN [m EXCEPT !.dropped = TRUE]
      ELSE [m EXCEPT !.code = Append(m.code, Byte(opCode)),
                     !.top = m.top + 1,
                     !.high = IF m.top + 1 >= m.high THEN m.top + 1 ELSE m.high,
                     !.sessHigh = IF m.top + 1 >= m.sessHigh THEN m.top + 1 ELSE m.sessHigh]
  ) : m \in {mm} })

\* pop(): the byte it returns and the stack it leaves.  A pop on an empty
\* stack wraps topOfStack to 255 and reads outside theCode: what it returns
\* and what follows is undefined, so the pop is flagged in popEmpty and no
\* further doTimeslice() call is taken from a flagged state.
popValue(mm) ==
  Val({ (
      IF m.top = 0 \/ m.top > Len(m.code) THEN 0 ELSE m.code[m.top]
  ) : m \in {mm} })
popped(mm) ==
  Val({ (
      IF m.top = 0 \/ m.top > Len(m.code)
      THEN [m EXCEPT !.popEmpty = TRUE, !.top = Byte(m.top - 1)]
      ELSE [m EXCEPT !.code = SubSeq(m.code, 1, m.top - 1), !.top = m.top - 1]
  ) : m \in {mm} })

\* pushSendOneByte(b)
pushSendOneByte(m, b) == push(push(push(m, b), 8), SendRemainingBits)

\* YieldFor(numberOfTics)
YieldFor(m, numberOfTics) == push(push(m, numberOfTics), Yield)

\* case BusLow
opBusLow(m) == pullBusLow(m)

\* case BusRelease
opBusRelease(m) == releaseBus(m)

\* SendRemainingBits, altered: the most significant bit is sent first.
opSendRemainingBits_msb(m) ==
  LET bitsToGo == popValue(m)
      m1 == popped(m)
      toSend == popValue(m1)
      m2 == popped(m1)
      theBitToSend == toSend \div 128
      left == Byte(bitsToGo - 1)
      m3 == IF left > 0
            THEN push(push(push(m2, Byte(toSend * 2)), left), SendRemainingBits)
            ELSE m2
  IN  IF theBitToSend = 1
      THEN YieldFor(releaseBus(pullBusLow(m3)), Micros64)
      ELSE YieldFor(push(pullBusLow(m3), BusRelease), Micros60)

\* case SendRemainingBits
opSendRemainingBits(m) ==
  LET bitsToGo == popValue(m)
      m1 == popped(m)
      toSend == popValue(m1)
      m2 == popped(m1)
      theBitToSend == toSend % 2
      left == Byte(bitsToGo - 1)
      m3 == IF left > 0
            THEN push(push(push(m2, toSend \div 2), left), SendRemainingBits)
            ELSE m2
  IN  IF theBitToSend = 1
      THEN YieldFor(releaseBus(pullBusLow(m3)), Micros64)
      ELSE YieldFor(push(pullBusLow(m3), BusRelease), Micros60)

\* case ClearBusyStatus
opClearBusyStatus(m) ==
  emit([m EXCEPT !.status = AndNotMask(m.status, StillBusy)], "clear", 0)

\* ReadScratchPad, altered: the read-scratchpad command byte is left out.
opReadScratchPad_nocmd(m) ==
  LET m1 == push(m, Reset)
      m2 == [m1 EXCEPT !.rr = 0]
      m3 == push(push(m2, 0), ReadRemainingBits)
  IN  push(push(m3, StartIDSend), Reset)

\* case ReadScratchPad
opReadScratchPad(m) ==
  LET m1 == push(m, Reset)
      m2 == [m1 EXCEPT !.rr = 0]
      m3 == push(push(m2, 0), ReadRemainingBits)
      m4 == pushSendOneByte(m3, READSCRATCH)
  IN  push(push(m4, StartIDSend), Reset)

\* the store sPad[sPadIndx] = receiveRegister
storePad(m, sPadIndx, value) ==
  IF sPadIndx + 1 \in 1..9
  THEN [m EXCEPT !.pad = [m.pad EXCEPT ![sPadIndx + 1] = value],
                 !.stores = Append(m.stores, sPadIndx)]
  ELSE [m EXCEPT !.padOverrun = TRUE, !.stores = Append(m.stores, sPadIndx)]

\* ReadRemainingBits, altered: the mask is built from the bit index, not from
\* the index modulo 8.
opReadRemainingBits_mask(m) ==
  LET thisBit == deviceBit(m)
      m0 == sampleBus(releaseBus(pullBusLow([m EXCEPT !.slot = m.slot + 1])), thisBit)
      bitPos == popValue(m0)
      m1 == popped(m0)
      m2 == IF thisBit # 0 /\ bitPos < 8
            THEN [m1 EXCEPT !.rr = OrMask(m1.rr, Pow2(bitPos))]
            ELSE m1
      next == Byte(bitPos + 1)
      m3 == IF next % 8 = 0
            THEN LET st == [storePad(m2, Byte((next \div 8) - 1), m2.rr) EXCEPT !.rr = 0]
                 IN  IF next < 72 THEN push(push(st, next), ReadRemainingBits) ELSE st
            ELSE push(push(m2, next), ReadRemainingBits)
  IN  YieldFor(m3, Micros55)

\* ReadRemainingBits, altered: the read goes on for a tenth byte.
opReadRemainingBits_long(m) ==
  LET thisBit == deviceBit(m)
      m0 == sampleBus(releaseBus(pullBusLow([m EXCEPT !.slot = m.slot + 1])), thisBit)
      bitPos == popValue(m0)
      m1 == popped(m0)
      m2 == IF thisBit # 0
            THEN [m1 EXCEPT !.rr = OrMask(m1.rr, Pow2(bitPos % 8))]
            ELSE m1
      next == Byte(bitPos + 1)
      m3 == IF next % 8 = 0
            THEN LET st == [storePad(m2, Byte((next \div 8) - 1), m2.rr) EXCEPT !.rr = 0]
                 IN  IF next < 80 THEN push(push(st, next), ReadRemainingBits) ELSE st
            ELSE push(push(m2, next), ReadRemainingBits)
  IN  YieldFor(m3, Micros55)

\* case ReadRemainingBits
opReadRemainingBits(m) ==
  LET thisBit == deviceBit(m)
      m0 == sampleBus(releaseBus(pullBusLow([m EXCEPT !.slot = m.slot + 1])), thisBit)
      bitPos == popValue(m0)
      m1 == popped(m0)
      m2 == IF thisBit # 0
            THEN [m1 EXCEPT !.rr = OrMask(m1.rr, Pow2(bitPos % 8))]
            ELSE m1
      next == Byte(bitPos + 1)
      m3 == IF next % 8 = 0
            THEN LET st == [storePad(m2, Byte((next \div 8) - 1), m2.rr) EXCEPT !.rr = 0]
                 IN  IF next < 72 THEN push(push(st, next), ReadRemainingBits) ELSE st
            ELSE push(push(m2, next), ReadRemainingBits)
  IN  YieldFor(m3, Micros55)

\* case StartIDSend
opStartIDSend(m) ==
  pushSendOneByte(push([m EXCEPT !.idx = 0], SendRemainingIDBytes), SELECTDEVICE)

\* SendRemainingIDBytes, altered: the address goes out last byte first.
opSendRemainingIDBytes_reverse(m) ==
  IF m.idx < 8
  THEN LET m1 == push(m, SendRemainingIDBytes)
           m2 == push([m1 EXCEPT !.idx = Byte(m.idx + 1)], m.addr[8 - m.idx])
       IN  push(push(m2, 8), SendRemainingBits)
  ELSE m

\* case SendRemainingIDBytes
opSendRemainingIDBytes(m) ==
  IF m.idx < 8
  THEN LET m1 == push(m, SendRemainingIDBytes)
           m2 == push([m1 EXCEPT !.idx = Byte(m.idx + 1)], m.addr[m.idx + 1])
       IN  push(push(m2, 8), SendRemainingBits)
  ELSE m

\* Reset, altered: the 70 us and the 410 us waits change places.
opReset_swapped(m) ==
  LET m1 == push(YieldFor(m, Micros70), BusSample)
      m2 == push(YieldFor(m1, Micros410), BusRelease)
  IN  push(YieldFor(m2, Micros480), BusLow)

\* case Reset
opReset(m) ==
  LET m1 == push(YieldFor(m, Micros410), BusSample)
      m2 == push(YieldFor(m1, Micros70), BusRelease)
  IN  push(YieldFor(m2, Micros480), BusLow)

\* BusSample, altered: the pending computation is abandoned when no device answers.
opBusSample_flush(m, level) ==
  LET m1 == sampleBus(releaseBus(m), level)
  IN  IF level = 1
      THEN flushStack([m1 EXCEPT !.status = OrMask(m1.status, NoDeviceOnBus),
                                 !.sawAbsent = TRUE])
      ELSE m1

\* BusSample, altered: the Reset is made again when no device answers.
opBusSample_retry(m, level) ==
  LET m1 == sampleBus(releaseBus(m), level)
  IN  IF level = 1
      THEN push([m1 EXCEPT !.status = OrMask(m1.status, NoDeviceOnBus), !.sawAbsent = TRUE],
                Reset)
      ELSE m1

\* case BusSample; level is what the line reads
opBusSample(m, level) ==
  LET m1 == sampleBus(releaseBus(m), level)
  IN  IF level = 1
      THEN [m1 EXCEPT !.status = OrMask(m1.status, NoDeviceOnBus), !.sawAbsent = TRUE]
      ELSE m1

\* WaitForBusRelease, altered: a low sample yields without re-pushing the test.
opWaitForBusRelease_once(m, level) ==
  LET m1 == sampleBus(releaseBus(m), level)
  IN  IF level = 0
      THEN YieldFor([m1 EXCEPT !.waits = m1.waits + 1], 255)
      ELSE [m1 EXCEPT !.status = AndNotMask(m1.status, DevicesAreBusy)]

\* case WaitForBusRelease; level is what the line reads
opWaitForBusRelease(m, level) ==
  LET m1 == sampleBus(releaseBus(m), level)
  IN  IF level = 0
      THEN YieldFor(push([m1 EXCEPT !.waits = m1.waits + 1], WaitForBusRelease), 255)
      ELSE [m1 EXCEPT !.status = AndNotMask(m1.status, DevicesAreBusy)]

\* case TestTimings
opTestTimings(m) ==
  LET m0 == releaseBus(m)
      loByte == popValue(m0)
      m1 == popped(m0)
      hiByte == popValue(m1)
      m2 == popped(m1)
      toGo0 == hiByte * 256 + loByte
      toGo == IF toGo0 > 1 THEN toGo0 - 1 ELSE toGo0
      m3 == IF toGo0 > 1
            THEN push(push(push(m2, toGo \div 256), toGo % 256), TestTimings)
            ELSE m2
      m4 == pullBusLow(m3)
  IN  CASE toGo % 5 = 0 -> YieldFor(m4, Micros480)
        [] toGo % 5 = 1 -> YieldFor(m4, Micros70)
        [] toGo % 5 = 2 -> YieldFor(m4, Micros64)
        [] OTHER -> YieldFor(m4, Micros55)

\* the idle branch, altered: the line is released on every idle call.
idle_release(m) == [releaseBus(m) EXCEPT !.ret = 255]

\* the idle branch of doTimeslice: nothing to do, maximum holdoff
idle(m) == [m EXCEPT !.ret = 255]

\* Yield, altered: the timeslice ends with one tick more than the operand.
opYield_late(m) ==
  emit([popped(m) EXCEPT !.ret = Byte(popValue(m) + 1)], "yield", popValue(m))

\* case Yield: ends the timeslice with its operand
opYield(m) == emit([popped(m) EXCEPT !.ret = popValue(m)], "yield", popValue(m))

\* the switch of doTimeslice for every opcode but Yield
execute(m, opCode, level) ==
  CASE opCode = BusLow -> opBusLow(m)
    [] opCode = BusRelease -> opBusRelease(m)
    [] opCode = SendRemainingBits -> opSendRemainingBits(m)
    [] opCode = ClearBusyStatus -> opClearBusyStatus(m)
    [] opCode = ReadScratchPad -> opReadScratchPad(m)
    [] opCode = ReadRemainingBits -> opReadRemainingBits(m)
    [] opCode = StartIDSend -> opStartIDSend(m)
    [] opCode = SendRemainingIDBytes -> opSendRemainingIDBytes(m)
    [] opCode = Reset -> opReset(m)
    [] opCode = BusSample -> opBusSample(m, level)
    [] opCode = WaitForBusRelease -> opWaitForBusRelease(m, level)
    [] opCode = TestTimings -> opTestTimings(m)
    [] OTHER -> m

\* the fields of the object: what the next iteration of the loop depends on
Fields(m) == <<m.code, m.top, m.status, m.rr, m.addr, m.idx, m.pad>>

\* doTimeslice(): pops and executes until a Yield is popped or the stack is
\* empty.  level is what the line reads at a presence or busy sample of this
\* call.  The run ends at a flagged pop or store: what follows is undefined.
\* An iteration that leaves every field as it found it is repeated for as
\* long as the line reads the same: the call is flagged in spins and cut.
\* A call that has popped MaxSteps opcodes without a Yield is left at the
\* head of its loop, where the next step takes it up again.
RECURSIVE doTimeslice(_, _)
doTimeslice(mm, level) ==
  Val({ (
      IF m.popEmpty \/ m.padOverrun \/ m.spins THEN m
      ELSE IF m.top = 0 THEN idle(m)
      ELSE IF m.steps >= MaxSteps THEN m
      ELSE LET opCode == popValue(m)
               m1 == [popped(m) EXCEPT !.lastOp = opCode, !.steps = m.steps + 1]
           IN  IF opCode = Yield THEN opYield(m1)
               ELSE Val({ (
                      IF Fields(r) = Fields(m) THEN [r EXCEPT !.spins = TRUE]
                      ELSE doTimeslice(r, level)
                    ) : r \in {execute(m1, opCode, level)} })
  ) : m \in {mm} })

\* the object and its observers as one record
Machine ==
  [code |-> theCode, top |-> topOfStack, status |-> status, rr |-> receiveRegister,
   addr |-> deviceAddr, idx |-> idByteIndex, pad |-> sPad, high |-> stackHighTide,
   busLow |-> busLow,
   devPad |-> devPad, slot |-> slot, log |-> log,
   sessHigh |-> sessHigh, sawAbsent |-> sawAbsent, waits |-> waits, ret |-> holdoff,
   dropped |-> pushDropped, popEmpty |-> popEmpty, padOverrun |-> padOverrun,
   spins |-> spins, stores |-> stores,   lastOp |-> lastOp, steps |-> steps]

Becomes(m, name, call) ==
  /\ theCode' = m.code
  /\ topOfStack' = m.top
  /\ status' = m.status
  /\ receiveRegister' = m.rr
  /\ deviceAddr' = m.addr
  /\ idByteIndex' = m.idx
  /\ sPad' = m.pad
  /\ stackHighTide' = m.high
  /\ busLow' = m.busLow
  /\ devPad' = m.devPad
  /\ slot' = m.slot
  /\ log' = m.log
  /\ sessHigh' = m.sessHigh
  /\ sawAbsent' = m.sawAbsent
  /\ waits' = m.waits
  /\ holdoff' = m.ret
  /\ pushDropped' = m.dropped
  /\ popEmpty' = m.popEmpty
  /\ padOverrun' = m.padOverrun
  /\ spins' = m.spins
  /\ stores' = m.stores
  /\ session' = name
  /\ lastCall' = call
  /\ startCode' = IF call = "advance" THEN startCode ELSE m.code
  /\ lastOp' = m.lastOp
  /\ steps' = m.steps
  /\ UNCHANGED searchVars

\* a session start seen by the observers: a new recording
started(m) ==
  [m EXCEPT !.slot = 0, !.log = <<>>, !.sessHigh = 0, !.sawAbsent = FALSE, !.waits = 0,
            !.lastOp = 0, !.steps = 0, !.stores = <<>>]

\* readScratchpadAsync, altered: ClearBusyStatus is pushed last, not first.
readScratchpadAsync_clearfirst(m, deviceAddress) ==
  LET m1 == flushStack([m EXCEPT !.addr = deviceAddress])
      m2 == [m1 EXCEPT !.status = StillBusy]
  IN  push(push(m2, ReadScratchPad), ClearBusyStatus)

\* readScratchpadAsync(deviceAddress, scratchPad)
readScratchpadAsync(m, deviceAddress) ==
  LET m1 == flushStack([m EXCEPT !.addr = deviceAddress])
      m2 == [m1 EXCEPT !.status = StillBusy]
  IN  push(push(m2, ClearBusyStatus), ReadScratchPad)

\* resetAsync, altered: StillBusy is or-ed into the status that was there.
resetAsync_orstatus(m) ==
  push(push([flushStack(m) EXCEPT !.status = OrMask(m.status, StillBusy)], ClearBusyStatus),
       Reset)

\* resetAsync()
resetAsync(m) ==
  push(push([flushStack(m) EXCEPT !.status = StillBusy], ClearBusyStatus), Reset)

\* convertAllTemperaturesAsync, altered: the two command bytes change places.
convertAllTemperaturesAsync_swapped(m) ==
  LET m1 == push([flushStack(m) EXCEPT !.status = DevicesAreBusy], WaitForBusRelease)
  IN  push(pushSendOneByte(pushSendOneByte(m1, SKIPROMWILDCARD), STARTCONVO), Reset)

\* convertAllTemperaturesAsync()
convertAllTemperaturesAsync(m) ==
  LET m1 == push([flushStack(m) EXCEPT !.status = DevicesAreBusy], WaitForBusRelease)
  IN  push(pushSendOneByte(pushSendOneByte(m1, STARTCONVO), SKIPROMWILDCARD), Reset)

\* doTestTimings, altered: ClearBusyStatus is not pushed.
doTestTimings_noclear(m, repeats) ==
  LET m1 == push([flushStack(m) EXCEPT !.status = StillBusy], BusRelease)
  IN  push(push(push(m1, repeats \div 256), repeats % 256), TestTimings)

\* doTestTimings, altered: BusRelease is not pushed.
doTestTimings_norelease(m, repeats) ==
  LET m1 == push([flushStack(m) EXCEPT !.status = StillBusy], ClearBusyStatus)
  IN  push(push(push(m1, repeats \div 256), repeats % 256), TestTimings)

\* doTestTimings(repeats)
doTestTimings(m, repeats) ==
  LET m1 == push(push([flushStack(m) EXCEPT !.status = StillBusy], ClearBusyStatus),
                 BusRelease)
  IN  push(push(push(m1, repeats \div 256), repeats % 256), TestTimings)

AsyncInit ==
  /\ theCode = <<>>
  /\ topOfStack = 0
  /\ status = 0
  /\ receiveRegister = 0
  /\ deviceAddr = NoAddress
  /\ idByteIndex = 0
  /\ sPad = EmptyPad
  /\ stackHighTide = 0
  /\ busLow = FALSE
  /\ devPad \in ScratchPads
  /\ slot = 0
  /\ log = <<>>
  /\ session = "none"
  /\ sessHigh = 0
  /\ sawAbsent = FALSE
  /\ waits = 0
  /\ holdoff = 255
  /\ pushDropped = FALSE
  /\ popEmpty = FALSE
  /\ padOverrun = FALSE
  /\ spins = FALSE
  /\ stores = <<>>
  /\ lastCall = "none"
  /\ startCode = <<>>
  /\ lastOp = 0
  /\ steps = 0

\* the search engine is not part of the interpreter's runs
SearchIdle ==
  /\ devices = {}
  /\ begun = FALSE
  /\ inputBuf = ZeroBits
  /\ fork = ZeroBits
  /\ firstTime = FALSE
  /\ found = <<>>
  /\ calls = 0
  /\ aborts = 0
  /\ last = NoCall

Init == AsyncInit /\ SearchIdle

StartReset == \E m \in {resetAsync(started(Machine))} : Becomes(m, "reset", "reset")

StartReadScratchpad ==
  \E a \in Addresses :
    \E m \in {readScratchpadAsync(started(Machine), a)} : Becomes(m, "read", "read")

StartConvertAll ==
  \E m \in {convertAllTemperaturesAsync(started(Machine))} : Becomes(m, "convert", "convert")

StartTestTimings ==
  \E r \in Repeats :
    \E m \in {doTestTimings(started(Machine), r)} : Becomes(m, "timing", "timing")

\* ISR(TIMER2_COMPA_vect): one doTimeslice() call
Advance ==
  /\ Len(log) < MaxLog
  /\ session = "timing" => Len(log) < MaxTimingLog
  /\ ~popEmpty /\ ~padOverrun /\ ~spins
  /\ \E level \in {0, 1} :
       \E m \in {doTimeslice([Machine EXCEPT !.steps = 0], level)} :
         m.waits <= MaxWaits /\ Becomes(m, session, "advance")

Next == StartReset \/ StartReadScratchpad \/ StartConvertAll \/ StartTestTimings \/ Advance

Spec == Init /\ [][Next]_vars

(***************************************************************************)
(* One byte on its way out.  The reader is taken at the point of a         *)
(* readScratchpad session where SendRemainingIDBytes has just pushed the   *)
(* first address byte with its count of 8 and SendRemainingBits; the byte  *)
(* is any byte value.  The recording of bus events starts there.           *)
(***************************************************************************)
TailOfAddress == <<255, 100, 30, 15, 140, 129, 76>>

SendBelow ==
  <<ClearBusyStatus, Reset, 0, ReadRemainingBits, READSCRATCH, 8, SendRemainingBits,
    SendRemainingIDBytes>>

SendInit ==
  /\ \E b \in 0..255 :
       /\ theCode = SendBelow \o <<b, 8, SendRemainingBits>>
       /\ deviceAddr = <<b>> \o TailOfAddress
  /\ topOfStack = Len(theCode)
  /\ startCode = theCode
  /\ status = StillBusy
  /\ receiveRegister = 0
  /\ idByteIndex = 1
  /\ sPad = EmptyPad
  /\ stackHighTide = 17
  /\ busLow = FALSE
  /\ devPad \in ScratchPads
  /\ slot = 0
  /\ log = <<>>
  /\ session = "read"
  /\ sessHigh = 17
  /\ sawAbsent = FALSE
  /\ waits = 0
  /\ holdoff = Micros60
  /\ pushDropped = FALSE
  /\ popEmpty = FALSE
  /\ padOverrun = FALSE
  /\ spins = FALSE
  /\ stores = <<>>
  /\ lastCall = "advance"
  /\ lastOp = SendRemainingIDBytes
  /\ steps = 2
  /\ SearchIdle

SendNext == Advance

SendSpec == SendInit /\ [][SendNext]_vars

(***************************************************************************)
(* The reader with a stack deeper than its sessions make it.  The stack is *)
(* what an entry point leaves, or the busy test a convertAll session comes *)
(* down to, on top of any number of ClearBusyStatus entries that fits in   *)
(* the array; doTimeslice() is then called over and over.                  *)
(***************************************************************************)
Padding(k) == [i \in 1..k |-> ClearBusyStatus]

SessionStacks ==
  { [name |-> "reset", status |-> StillBusy, code |-> <<ClearBusyStatus, Reset>>],
    [name |-> "read", status |-> StillBusy, code |-> <<ClearBusyStatus, ReadScratchPad>>],
    [name |-> "convert", status |-> DevicesAreBusy,
     code |-> <<WaitForBusRelease, STARTCONVO, 8, SendRemainingBits,
                SKIPROMWILDCARD, 8, SendRemainingBits, Reset>>],
    [name |-> "convert", status |-> DevicesAreBusy, code |-> <<WaitForBusRelease>>] }
    \cup { [name |-> "timing", status |-> StillBusy,
            code |-> <<ClearBusyStatus, BusRelease, r \div 256, r % 256, TestTimings>>] :
            r \in Repeats }

DeepInit ==
  /\ \E s \in SessionStacks : \E k \in 0..(stackSize - Len(s.code)) :
       /\ theCode = Padding(k) \o s.code
       /\ status = s.status
       /\ session = s.name
  /\ topOfStack = Len(theCode)
  /\ startCode = theCode
  /\ stackHighTide = topOfStack
  /\ busLow = FALSE
  /\ sessHigh = topOfStack
  /\ receiveRegister = 0
  /\ deviceAddr \in Addresses
  /\ idByteIndex = 0
  /\ sPad = EmptyPad
  /\ devPad \in ScratchPads
  /\ slot = 0
  /\ log = <<>>
  /\ sawAbsent = FALSE
  /\ waits = 0
  /\ holdoff = 255
  /\ pushDropped = FALSE
  /\ popEmpty = FALSE
  /\ padOverrun = FALSE
  /\ spins = FALSE
  /\ stores = <<>>
  /\ lastCall = session
  /\ lastOp = 0
  /\ steps = 0
  /\ SearchIdle

DeepNext == Advance

DeepSpec == DeepInit /\ [][DeepNext]_vars

(***************************************************************************)
(* The same reader driven by a caller that starts a session only when the  *)
(* one before has run to its end, with the timer interrupt never switched  *)
(* off: a doTimeslice() call that stays possible is eventually made.  The  *)
(* line may read low at no more than MaxWaits busy samples of a session,   *)
(* so it is eventually high.                                               *)
(***************************************************************************)
StartFromIdle ==
  /\ topOfStack = 0
  /\ (StartReset \/ StartReadScratchpad \/ StartConvertAll \/ StartTestTimings)

SerialNext == StartFromIdle \/ Advance

SerialSpec == Init /\ [][SerialNext]_vars /\ WF_vars(Advance)

(***************************************************************************)
(* Properties of SensorDiscovery, under SearchSpec.                      *)
(***************************************************************************)
FoundSet == {found[i] : i \in 1..Len(found)}

\* devices is a pair {a, b} whose IDs differ at bit k only, a having 0 there
PairDifferingAt(a, b, k) ==
  /\ devices = {a, b}
  /\ a[k] = 0 /\ b[k] = 1
  /\ \A i \in Depths \ {k} : a[i] = b[i]

\* C1: on a consistent bus, successive findNextDevice() calls after begin()
\* return Found once for every device on the bus, never a device twice and
\* never an ID that is not on the bus, and Exhausted is returned only when
\* every device has been returned.
C1_EnumeratesEveryDevice ==
  (begun /\ aborts = 0) =>
     /\ \A i \in 1..Len(found) : found[i] \in devices
     /\ \A i, j \in 1..Len(found) : i # j => found[i] # found[j]
     /\ (last.res = 1 => FoundSet = devices)

\* C2: for two devices whose IDs differ only at bit k, the first call returns
\* Found with the ID whose bit k is 0 and leaves exactly fork bit k set, the
\* second returns Found with the ID whose bit k is 1 and leaves no fork bit,
\* the third returns Exhausted.
C2_TwoDevicesOneBitApart ==
  \A k \in Depths : \A a, b \in IDs :
    (begun /\ aborts = 0 /\ PairDifferingAt(a, b, k)) =>
       /\ calls = 1 => (last.res = 0 /\ inputBuf = a /\ fork = setBit(ZeroBits, k))
       /\ calls = 2 => (last.res = 0 /\ inputBuf = b /\ fork = ZeroBits)
       /\ calls = 3 => (last.res = 1 /\ found = <<a, b>>)

C2_Witness ==
  /\ begun /\ aborts = 0 /\ calls = 3 /\ last.res = 1
  /\ \E a, b \in IDs : PairDifferingAt(a, b, IdBits - 1) /\ found = <<a, b>>

\* C3: a call made when it is not the first after begin() and no fork bit is
\* set returns Exhausted (1), performs no bus operation and leaves the ID
\* buffer, the fork bitmap and the first-call flag as they were.
C3_ExhaustedIsIdempotent ==
  (calls > 0 /\ ~last.preFirst /\ last.preFork = ZeroBits) =>
     /\ last.res = 1
     /\ last.ops = 0
     /\ inputBuf = last.preBuf
     /\ fork = last.preFork
     /\ firstTime = last.preFirst

\* two calls in a row have returned Exhausted, after every device was found
C3_Witness ==
  /\ calls = Len(found) + 2 /\ aborts = 0 /\ Len(found) >= 2
  /\ ~last.preFirst /\ last.preFork = ZeroBits
  /\ last.res = 1 /\ inputBuf # ZeroBits

\* C4: a call that reads (1,1) at round d returns ProtocolConflict (2) at
\* once: fork bit d is not set by it, ID bit d is not written, and exactly
\* the d bits of the rounds before d were sent back (none in round d).
C4_ConflictAbortsAtOnce ==
  \A d \in Depths :
    (calls > 0 /\ last.conflictAt = d) =>
       /\ last.res = 2
       /\ (isBit(fork, d) => isBit(last.preFork, d))
       /\ d \notin last.written
       /\ last.written = 0..(d - 1)
       /\ last.sent = d
       /\ last.ops = 1 + 8 + 3 * d + 2
       /\ last.cmd = SEARCHROM

\* a conflict in a round above the frozen depth of a backtracking call
C4_Witness ==
  /\ calls >= 2 /\ Len(found) >= 1 /\ last.res = 2
  /\ last.conflictAt = IdBits - 1
  /\ last.preFork # ZeroBits /\ ~isBit(last.preFork, IdBits - 1)

\* C5: an aborted call can be retried: once the bus is consistent again the
\* following calls still return every device that had not been returned, so
\* Exhausted is reached only after every device was returned.  (Stated for
\* one or two devices.)
C5_AbortedCallCanBeRetried ==
  (begun /\ aborts >= 1 /\ Cardinality(devices) <= 2 /\ last.res = 1 /\ last.ops = 0)
     => FoundSet = devices

(***************************************************************************)
(* Properties of AsyncTemperatureReader, under Spec.                     *)
(***************************************************************************)
\* what a recording bus sees of each documented step
RECURSIVE Flatten(_)
Flatten(seqs) == IF seqs = <<>> THEN <<>> ELSE Head(seqs) \o Flatten(Tail(seqs))

ResetTrace(presence) ==
  << <<"low", 0>>, <<"yield", Micros480>>, <<"release", 0>>, <<"yield", Micros70>>,
     <<"release", 0>>, <<"sample", presence>>, <<"yield", Micros410>> >>

SendBitTrace(b) ==
  IF b = 1 THEN << <<"low", 0>>, <<"release", 0>>, <<"yield", Micros64>> >>
           ELSE << <<"low", 0>>, <<"yield", Micros60>>, <<"release", 0>> >>

SendByteTrace(b) == Flatten([i \in 1..8 |-> SendBitTrace(BitOf(b, i - 1))])

SendAddressTrace(a) == Flatten([i \in 1..8 |-> SendByteTrace(a[i])])

ReadSlotTrace(b) ==
  << <<"low", 0>>, <<"release", 0>>, <<"sample", b>>, <<"yield", Micros55>> >>

ReadPadTrace(pad) ==
  Flatten([i \in 1..72 |-> ReadSlotTrace(BitOf(pad[((i - 1) \div 8) + 1], (i - 1) % 8))])

ClearTrace == << <<"clear", 0>> >>

\* the session in flight has run to the end with a device present at every Reset
Drained(name) == session = name /\ topOfStack = 0 /\ ~sawAbsent

\* C6: with a device that is present at every Reset and answers the read
\* slots with the bits of its scratchpad, least-significant bit of each byte
\* first, a drained readScratchpad session leaves the caller's buffer equal
\* to the device's nine bytes and status 0.
C6_ScratchpadRoundTrip ==
  Drained("read") => (sPad = devPad /\ status = 0 /\ ~padOverrun)

C6_Witness ==
  /\ Drained("read") /\ lastCall = "advance" /\ slot = 72
  /\ sPad = devPad /\ sPad[1] = 80 /\ sPad[9] = 28 /\ status = 0

\* C7, as the specification words it: one readScratchpad session is one
\* Reset, the select-device command and the 8 address bytes, the
\* read-scratchpad command, 72 bit reads, then ClearBusyFlag, and nothing else.
C7_OneResetPerSession ==
  Drained("read") =>
    log = Flatten(<< ResetTrace(0), SendByteTrace(SELECTDEVICE), SendAddressTrace(deviceAddr),
                     SendByteTrace(READSCRATCH), ReadPadTrace(devPad), ClearTrace >>)

\* C7, as the code behaves: the session is a Reset, the select-device
\* command and the 8 address bytes, the read-scratchpad command, 72 bit
\* reads, a second Reset, then ClearBusyFlag, each once and in this order,
\* and nothing else.
C7_ResetBeforeAndAfter ==
  Drained("read") =>
    log = Flatten(<< ResetTrace(0), SendByteTrace(SELECTDEVICE), SendAddressTrace(deviceAddr),
                     SendByteTrace(READSCRATCH), ReadPadTrace(devPad), ResetTrace(0),
                     ClearTrace >>)

C7_Witness ==
  /\ Drained("read") /\ lastCall = "advance" /\ status = 0
  /\ Len(log) = 7 + 240 + 288 + 7 + 1
  /\ deviceAddr[1] = 40

\* C8, as the specification words it: a drained reset session is drive-low,
\* yield(480 us), release, yield(70 us), sample, yield(410 us), clear StillBusy, with no
\* other drive-low, release or sample, and ends with status 0.
C8_ResetSequenceAsDocumented ==
  Drained("reset") =>
    /\ log = << <<"low", 0>>, <<"yield", Micros480>>, <<"release", 0>>,
                <<"yield", Micros70>>, <<"sample", 0>>, <<"yield", Micros410>>,
                <<"clear", 0>> >>
    /\ status = 0

\* C8, as the code behaves: the same sequence with a second release right
\* before the sample: drive-low, yield(480 us), release, yield(70 us), release, sample,
\* yield(410 us), clear StillBusy; status is 0 at the end.
C8_ResetSequence ==
  Drained("reset") =>
    /\ log = << <<"low", 0>>, <<"yield", Micros480>>, <<"release", 0>>,
                <<"yield", Micros70>>, <<"release", 0>>, <<"sample", 0>>,
                <<"yield", Micros410>>, <<"clear", 0>> >>
    /\ status = 0

C8_Witness ==
  Drained("reset") /\ lastCall = "advance" /\ Len(log) = 8 /\ status = 0 /\ holdoff = 255

\* C9: a doTimeslice() call on an empty stack returns 255, performs no bus
\* primitive and leaves the stack, the status, the receive register and the
\* scratchpad as they were.
C9_IdleAdvance ==
  [][(topOfStack = 0 /\ lastCall' = "advance") =>
       /\ holdoff' = 255
       /\ log' = log
       /\ theCode' = theCode /\ topOfStack' = topOfStack
       /\ status' = status
       /\ receiveRegister' = receiveRegister
       /\ sPad' = sPad]_vars

\* doTimeslice() has been called on the empty stack of a reader that was never started
C9_Witness ==
  /\ session = "none" /\ lastCall = "advance"
  /\ topOfStack = 0 /\ theCode = <<>> /\ holdoff = 255 /\ log = <<>> /\ status = 0

\* the deepest stack a session of each kind builds
DepthOf(name) ==
  CASE name = "reset" -> 10
    [] name = "read" -> 17
    [] name = "convert" -> 16
    [] name = "timing" -> 7
    [] OTHER -> 0

\* C10: whatever the interleaving of session starts and doTimeslice() calls
\* and whatever the line reads, topOfStack stays in 0..stackSize, no push is
\* dropped, no pop is made on an empty stack, and the depth a session
\* reaches is at most a constant of its kind (10, 17, 16, 7), which every
\* drained reset, readScratchpad and convertAll session reaches.
C10_StackBounded ==
  /\ topOfStack \in 0..stackSize
  /\ Len(theCode) = topOfStack
  /\ ~pushDropped /\ ~popEmpty
  /\ sessHigh <= DepthOf(session)
  /\ DepthOf(session) < stackSize
  /\ stackHighTide < stackSize
  /\ (topOfStack = 0 /\ session \in {"reset", "read", "convert"})
        => sessHigh = DepthOf(session)

\* a readScratchpad session has expanded its first Reset, 17 slots deep, and yielded
C10_Witness ==
  /\ session = "read" /\ lastCall = "advance" /\ sessHigh = 17 /\ stackHighTide = 17
  /\ topOfStack > 0 /\ ~pushDropped /\ ~popEmpty

SessionNames == {"reset", "read", "convert", "timing"}

\* a doTimeslice() call has left the stack of the session in flight empty
Ended == session \in SessionNames /\ topOfStack = 0 /\ lastCall = "advance"

\* an entry point has just returned
JustStarted == lastCall \in SessionNames

\* C11, as the specification words it: every entry point empties the stack
\* and pushes ClearBusyFlag as the bottom entry before the session's
\* opcodes, and ClearBusyFlag is the last instruction every session executes.
C11_ClearBusyLastInEverySession ==
  /\ JustStarted => (theCode = startCode /\ Head(startCode) = ClearBusyStatus)
  /\ Ended => lastOp = ClearBusyStatus

\* C11, as the code behaves: reset, readScratchpad and the timing test empty
\* the stack, push ClearBusyStatus as the bottom entry and execute it last;
\* convertAll empties the stack and pushes WaitForBusRelease as the bottom
\* entry, executes it last, never sets StillBusy and never executes
\* ClearBusyStatus.
C11_ClearBusyLastButConvertAll ==
  /\ JustStarted => theCode = startCode
  /\ (JustStarted /\ session # "convert") =>
        (Head(startCode) = ClearBusyStatus /\ status = StillBusy)
  /\ (Ended /\ session # "convert") =>
        (lastOp = ClearBusyStatus /\ log[Len(log)] = <<"clear", 0>>
           /\ BitOf(status, 0) = 0)
  /\ (JustStarted /\ session = "convert") =>
        (Head(startCode) = WaitForBusRelease /\ status = DevicesAreBusy)
  /\ session = "convert" =>
        (BitOf(status, 0) = 0 /\ \A i \in 1..Len(log) : log[i][1] # "clear")
  /\ (Ended /\ session = "convert") => lastOp = WaitForBusRelease

\* a timing test of three pulses has run to its ClearBusyStatus
C11_Witness ==
  /\ Ended /\ session = "timing" /\ startCode = <<ClearBusyStatus, BusRelease, 0, 3, TestTimings>>
  /\ lastOp = ClearBusyStatus /\ status = 0

IsPrefix(a, b) == Len(a) <= Len(b) /\ SubSeq(b, 1, Len(a)) = a

\* what a recording bus sees of n busy samples that read low
RECURSIVE WaitTrace(_)
WaitTrace(n) ==
  IF n = 0 THEN <<>>
  ELSE << <<"release", 0>>, <<"sample", 0>>, <<"yield", 255>> >> \o WaitTrace(n - 1)

\* what a recording bus sees of a timing test with toGo pulses still to
\* make, cut after most pulses
RECURSIVE TimingTrace(_, _)
TimingTrace(toGo, most) ==
  LET left == IF toGo > 1 THEN toGo - 1 ELSE toGo
      tics == CASE left % 5 = 0 -> Micros480 [] left % 5 = 1 -> Micros70
                [] left % 5 = 2 -> Micros64 [] OTHER -> Micros55
      pulse == << <<"release", 0>>, <<"low", 0>>, <<"yield", tics>> >>
  IN  IF most = 0 THEN <<>>
      ELSE IF toGo > 1 THEN pulse \o TimingTrace(toGo - 1, most - 1)
      ELSE pulse \o << <<"release", 0>> >> \o ClearTrace

\* the whole of each kind of session, from idle
ResetSessionTrace(p) == ResetTrace(p) \o ClearTrace

ReadSessionTrace(p1, p2) ==
  Flatten(<< ResetTrace(p1), SendByteTrace(SELECTDEVICE), SendAddressTrace(deviceAddr),
             SendByteTrace(READSCRATCH), ReadPadTrace(devPad), ResetTrace(p2), ClearTrace >>)

ConvertSessionTrace(p, n) ==
  Flatten(<< ResetTrace(p), SendByteTrace(SKIPROMWILDCARD), SendByteTrace(STARTCONVO),
             WaitTrace(n), << <<"release", 0>>, <<"sample", 1>> >> >>)

\* the stack and the status each entry point leaves
StartsAs(name) ==
  CASE name = "reset" -> theCode = <<ClearBusyStatus, Reset>> /\ status = StillBusy
    [] name = "read" -> theCode = <<ClearBusyStatus, ReadScratchPad>> /\ status = StillBusy
    [] name = "convert" ->
         /\ theCode = <<WaitForBusRelease, STARTCONVO, 8, SendRemainingBits,
                        SKIPROMWILDCARD, 8, SendRemainingBits, Reset>>
         /\ status = DevicesAreBusy
    [] name = "timing" ->
         /\ \E r \in Repeats :
              theCode = <<ClearBusyStatus, BusRelease, r \div 256, r % 256, TestTimings>>
         /\ status = StillBusy
    [] OTHER -> FALSE

\* what the session in flight has done so far is the beginning of what a
\* session of its kind does from idle
RunsAsFromIdle ==
  CASE session = "reset" -> \E p \in {0, 1} : IsPrefix(log, ResetSessionTrace(p))
    [] session = "read" -> \E p1, p2 \in {0, 1} : IsPrefix(log, ReadSessionTrace(p1, p2))
    [] session = "convert" ->
         \E p \in {0, 1} : \E n \in 0..(MaxWaits + 1) : IsPrefix(log, ConvertSessionTrace(p, n))
    [] session = "timing" -> IsPrefix(log, TimingTrace(startCode[3] * 256 + startCode[4], Len(log)))
    [] OTHER -> log = <<>>

\* C12: a session start run at any point of a session in flight overwrites
\* it: right after the call the stack holds exactly the new session's
\* initial instructions and status exactly its initial value; nothing of
\* the old session is executed afterwards, the new session does what it
\* does from idle, and a readScratchpad session that ends has filled the
\* buffer from the device whatever the receive register and the address
\* index held when it started.
C12_StartOverwrites ==
  /\ JustStarted => (session = lastCall /\ StartsAs(session))
  /\ RunsAsFromIdle
  /\ (Ended /\ session = "read") => sPad = devPad

\* a reset session has run to its end after a readScratchpad session was cut
\* short in the middle of a byte
C12_Witness ==
  /\ Ended /\ session = "reset" /\ receiveRegister # 0 /\ idByteIndex = 8
  /\ status \in {0, NoDeviceOnBus}

\* the busy test is what the next doTimeslice() call runs, after the release
\* that a 0 bit sent last may have left pending
AtBusyTest ==
  /\ session = "convert"
  /\ theCode \in {<<WaitForBusRelease>>, <<WaitForBusRelease, BusRelease>>}

BusyBit(st) == BitOf(st, 2)

\* one doTimeslice() call at the busy test, the line reading v
BusyTestStep(v) ==
  /\ log' = log \o (IF Len(theCode) = 2 THEN << <<"release", 0>> >> ELSE <<>>)
                \o << <<"release", 0>>, <<"sample", v>> >>
                \o (IF v = 0 THEN << <<"yield", 255>> >> ELSE <<>>)
  /\ v = 0 => /\ theCode' = <<WaitForBusRelease>> /\ topOfStack' = 1
              /\ holdoff' = 255
              /\ BusyBit(status') = 1 /\ status' = status
              /\ (Len(theCode) = 1 => (receiveRegister' = receiveRegister
                                         /\ idByteIndex' = idByteIndex /\ sPad' = sPad))
  /\ v = 1 => /\ theCode' = <<>> /\ topOfStack' = 0
              /\ BusyBit(status') = 0 /\ status' = AndNotMask(status, DevicesAreBusy)

\* C13: WaitForBusRelease samples the line once per doTimeslice() call; on a
\* low sample it re-pushes itself, the call returns 255 and DevicesAreBusy
\* stays set, the reader being left exactly as it was before the call, so
\* that nothing ever ends the wait while the line reads low; on a high
\* sample it clears DevicesAreBusy and is not re-pushed.  Until then
\* DevicesAreBusy is set and the stack is not empty.  When the line is
\* eventually high and doTimeslice() keeps being called, a convertAll
\* session ends with DevicesAreBusy clear and the stack empty.
C13_WaitForBusRelease ==
  /\ [][(AtBusyTest /\ lastCall' = "advance") => \E v \in {0, 1} : BusyTestStep(v)]_vars
  /\ [](session = "convert" /\ topOfStack > 0 => BusyBit(status) = 1)
  /\ (session = "convert") ~> (Ended /\ session = "convert" /\ BusyBit(status) = 0)

\* a convertAll session has ended after two busy samples that read low
C13_Witness ==
  /\ Ended /\ session = "convert" /\ waits = 2 /\ lastOp = WaitForBusRelease
  /\ status = 0 /\ Len(log) = Len(ConvertSessionTrace(0, 2))

Holdoffs == {255, Micros55, Micros60, Micros64, Micros70, Micros410, Micros480}

\* C15: every doTimeslice() call ends, after popping at most 4 opcodes:
\* either the last opcode popped is a Yield, and the call returns its
\* operand, or the stack is empty and the call returns 255; what is
\* returned is always 255 or one of the tick values YieldFor is called with.
C15_EveryCallEnds ==
  /\ holdoff \in Holdoffs
  /\ steps <= 4
  /\ lastCall = "advance" =>
        IF steps > 0 /\ lastOp = Yield
        THEN log # <<>> /\ log[Len(log)] = <<"yield", holdoff>>
        ELSE topOfStack = 0 /\ holdoff = 255

\* a call that popped four opcodes and ended on the Yield of a 1 bit
C15_Witness ==
  /\ session = "read" /\ lastCall = "advance" /\ steps = 4 /\ lastOp = Yield
  /\ holdoff = Micros64 /\ topOfStack > 0

\* C16: findNextDevice() returns one of three outcomes, Found (0),
\* Exhausted (1) or ProtocolConflict (2); it returns Exhausted only when the
\* call is not the first after begin() and no fork bit is set; and a call
\* whose Reset sees no device returns something else than Exhausted or Found.
C16_ThreeOutcomes ==
  calls > 0 =>
    /\ last.res \in {0, 1, 2}
    /\ last.res = 1 => (~last.preFirst /\ last.preFork = ZeroBits)
    /\ last.resetSaw = 1 => last.res \notin {0, 1}

\* C17: on a consistent bus of devices with distinct IDs, a call that
\* returns Found leaves in the ID buffer the ID of one device of the bus,
\* which is the one device left in contention after the last round, so that
\* no round ran with nobody in contention.
C17_FoundIsOneDevice ==
  (begun /\ aborts = 0 /\ calls > 0 /\ last.res = 0) =>
     /\ inputBuf \in devices
     /\ last.cont = {inputBuf}
     /\ last.written = Depths

\* the second device of a bus of three has been found, its ID not all zero
C17_Witness ==
  /\ begun /\ aborts = 0 /\ calls = 2 /\ last.res = 0 /\ Cardinality(devices) = 3
  /\ Len(found) = 2 /\ inputBuf \in devices /\ inputBuf # ZeroBits /\ last.zeros # {}

\* the deepest fork bit set when the last call was made
DeepestFork == CHOOSE i \in Depths : last.preFork[i] = 1 /\ \A j \in Depths : j > i => last.preFork[j] = 0

\* the last call was not the first after begin() and found a fork bit set
Resumed == calls > 0 /\ ~last.preFirst /\ last.preFork # ZeroBits

\* what the call has done to the ID buffer and the fork bitmap when it
\* reaches its Reset, seen after a call that stopped there
PrologueDone ==
  (Resumed /\ last.resetSaw = 1) =>
     \A i \in Depths :
        /\ inputBuf[i] = (IF i > DeepestFork THEN 0 ELSE IF i = DeepestFork THEN 1
                          ELSE last.preBuf[i])
        /\ fork[i] = (IF i = DeepestFork THEN 0 ELSE last.preFork[i])

\* how a resumed call that ran its rounds on a consistent bus resolved the
\* rounds in which the devices disagreed
ForksResolved ==
  (Resumed /\ aborts = 0 /\ last.res = 0) =>
     \A d \in last.zeros :
        /\ d = DeepestFork => inputBuf[d] = 1
        /\ d > DeepestFork => (inputBuf[d] = 0 /\ fork[d] = 1)

\* C18: a call that is not the first and finds a fork bit set, f being the
\* deepest, clears the ID bits above f, clears fork bit f, sets ID bit f and
\* leaves the ID bits and the fork bits below f alone, before any bus
\* activity; in its rounds a disagreement at depth f goes to the 1 branch
\* and a disagreement at any depth greater than f chooses 0 and sets the
\* fork bit of that depth.
C18_ResumeAtDeepestFork == PrologueDone /\ ForksResolved

\* C19: after a call that returns Found on a consistent bus, fork bit d is
\* set if and only if ID bit d of the buffer is 0 and a device not yet
\* returned has the bits of the buffer at 0..d-1 and bit 1 at d.
C19_ForksArePendingWork ==
  (begun /\ aborts = 0 /\ calls > 0 /\ last.res = 0) =>
     \A d \in Depths :
        fork[d] = 1 <=>
          /\ inputBuf[d] = 0
          /\ \E dev \in devices \ FoundSet :
                dev[d] = 1 /\ \A i \in Depths : i < d => dev[i] = inputBuf[i]

\* the byte pushed with the SendRemainingBits the run starts at, and the
\* stack below the instruction
SentByte == startCode[Len(startCode) - 2]
BelowSend == SubSeq(startCode, 1, Len(startCode) - 3)

Yields == Cardinality({i \in 1..Len(log) : log[i][1] = "yield"})

\* C20: a SendRemainingBits pushed with count 8 and byte b sends 8 bits,
\* bit i of b in slot i, least significant first, each followed by one
\* yield: a 1 is drive-low, release, yield(64 us), a 0 is drive-low,
\* yield(60 us), release; when the eighth yield is returned the stack is
\* what was below the instruction, with on top of it the release of the
\* last bit when that bit is a 0; the release is the next thing done.
C20_SendsEightBitsLsbFirst ==
  /\ Len(log) <= 24 => IsPrefix(log, SendByteTrace(SentByte))
  /\ Len(log) >= 24 => IsPrefix(SendByteTrace(SentByte), log)
  /\ (Yields = 8 /\ log[Len(log)][1] = "yield") =>
        IF BitOf(SentByte, 7) = 1
        THEN log = SendByteTrace(SentByte) /\ theCode = BelowSend
        ELSE /\ log \o << <<"release", 0>> >> = SendByteTrace(SentByte)
             /\ theCode = BelowSend \o <<BusRelease>>
  /\ Yields <= 8 => (idByteIndex = 1 /\ status = StillBusy /\ receiveRegister = 0)

\* the byte 10110010 has gone out, its last bit a 1
C20_Witness ==
  /\ SentByte = 178 /\ Yields = 8 /\ Len(log) = 24
  /\ theCode = BelowSend /\ topOfStack = 8 /\ holdoff = Micros64

\* a readScratchpad session past its first Reset: the number of the byte the
\* last bit slot belongs to (0 the select-device command, 1..8 the address
\* bytes, 9 the read-scratchpad command) and the number of that slot in it
ByteNo == (Len(log) - 8) \div 24
SlotNo == ((Len(log) - 8) % 24) \div 3
ByteOut(j) ==
  CASE j = 0 -> SELECTDEVICE [] j \in 1..8 -> deviceAddr[j] [] OTHER -> READSCRATCH

AddressedTrace ==
  Flatten(<< SendByteTrace(SELECTDEVICE), SendAddressTrace(deviceAddr),
             SendByteTrace(READSCRATCH) >>)

\* what is left of a byte on the stack after its slot q, with the release
\* a 0 bit leaves pending
FrameLeft(b, q) ==
  (IF q < 7 THEN <<b \div Pow2(q + 1), 7 - q, SendRemainingBits>> ELSE <<>>)
    \o (IF BitOf(b, q) = 0 THEN <<BusRelease>> ELSE <<>>)

\* C21: after the first Reset of a readScratchpad session the bus carries
\* the select-device byte 0x55, then the 8 bytes of the session's address
\* in index order, each once, then the read-scratchpad byte with nothing in
\* between; idByteIndex is the number of address bytes begun, from 0 to 8;
\* SendRemainingIDBytes stays on the stack below the byte being sent up to
\* the eighth address byte and is gone, with nothing pushed in its place,
\* once the read-scratchpad byte has begun.
C21_AddressSent ==
  (session = "read" /\ Len(log) > 7 /\ ByteNo <= 9) =>
    /\ SubSeq(log, 8, Len(log)) = SubSeq(AddressedTrace, 1, Len(log) - 7)
    /\ idByteIndex = (IF ByteNo <= 8 THEN ByteNo ELSE 8)
    /\ theCode = (IF ByteNo <= 8
                  THEN SendBelow
                  ELSE <<ClearBusyStatus, Reset, 0, ReadRemainingBits>>)
                   \o FrameLeft(ByteOut(ByteNo), SlotNo)

\* the eighth address byte is out and the first bit of the read-scratchpad
\* byte has been sent
C21_Witness ==
  /\ session = "read" /\ Len(log) = 225 /\ idByteIndex = 8 /\ deviceAddr[8] = 76
  /\ theCode = <<ClearBusyStatus, Reset, 0, ReadRemainingBits, 95, 7, SendRemainingBits,
                 BusRelease>>

\* C22: a convertAll session, whatever it overwrites, starts with status
\* exactly DevicesAreBusy; what it does on the bus is one Reset, the
\* skip-address byte 0xCC, the start-conversion byte 0x44 and then the busy
\* test until the line reads high, in this order, with no other byte sent;
\* it ends with status 0 when the Reset saw a device (and with exactly
\* NoDeviceOnBus when it did not).
C22_ConvertAllSequence ==
  session = "convert" =>
    /\ JustStarted => (status = DevicesAreBusy /\ log = <<>>)
    /\ \E p \in {0, 1} : IsPrefix(log, ConvertSessionTrace(p, waits))
    /\ Len(log) <= 55 =>
          IsPrefix(log, ResetTrace(IF sawAbsent THEN 1 ELSE 0)
                          \o SendByteTrace(SKIPROMWILDCARD) \o SendByteTrace(STARTCONVO))
    /\ topOfStack > 0 => status = (IF sawAbsent THEN DevicesAreBusy + NoDeviceOnBus
                                                ELSE DevicesAreBusy)
    /\ Ended =>
          /\ log = ConvertSessionTrace(IF sawAbsent THEN 1 ELSE 0, waits)
          /\ status = (IF sawAbsent THEN NoDeviceOnBus ELSE 0)
          /\ lastOp = WaitForBusRelease

\* a convertAll session with a device present has ended after one busy
\* sample that read low
C22_Witness ==
  /\ Ended /\ session = "convert" /\ ~sawAbsent /\ waits = 1 /\ status = 0
  /\ log = ConvertSessionTrace(0, 1) /\ Len(log) = 60

Busy == BitOf(status, 0) = 1 \/ BitOf(status, 2) = 1

\* C24: between calls, a busy bit is set in the status exactly when the
\* stack is not empty; with an empty stack the status is 0 or exactly
\* NoDeviceOnBus; and once no busy bit is set after a session start, the
\* session has executed its bottom instruction in a doTimeslice() call.
C24_BusyIffStackNotEmpty ==
  /\ Busy <=> topOfStack > 0
  /\ topOfStack = 0 => status \in {0, NoDeviceOnBus}
  /\ status \in {0, StillBusy, NoDeviceOnBus, DevicesAreBusy,
                  StillBusy + NoDeviceOnBus, DevicesAreBusy + NoDeviceOnBus}
  /\ (session \in SessionNames /\ ~Busy) =>
        /\ lastCall = "advance"
        /\ lastOp = Head(startCode)
        /\ sawAbsent <=> status = NoDeviceOnBus

\* a reset session on a bus without device has ended: idle, no busy bit
C24_Witness ==
  /\ session = "reset" /\ topOfStack = 0 /\ ~Busy /\ status = NoDeviceOnBus
  /\ log = ResetSessionTrace(1) /\ lastCall = "advance"

\* C25: a readScratchpad session stores to the caller's buffer once every
\* eight read slots, at the indices 0, 1, ..., 8 in this order and nowhere
\* else, nine stores in all, and StillBusy is set until the ninth is made;
\* once StillBusy is clear, a doTimeslice() call stores nothing, puts
\* nothing on the bus and leaves the buffer as it is.
C25_NineStoresThenQuiet ==
  /\ [](session = "read" =>
          /\ slot <= 72
          /\ stores = [i \in 1..(slot \div 8) |-> i - 1]
          /\ ~padOverrun
          /\ BitOf(status, 0) = 0 => (stores = <<0, 1, 2, 3, 4, 5, 6, 7, 8>> /\ sPad = devPad))
  /\ [][(session = "read" /\ BitOf(status, 0) = 0 /\ lastCall' = "advance") =>
          (sPad' = sPad /\ stores' = stores /\ log' = log /\ topOfStack' = 0)]_vars

\* doTimeslice() has been called after a readScratchpad session stored its
\* nine bytes and cleared StillBusy
C25_Witness ==
  /\ session = "read" /\ status = 0 /\ stores = <<0, 1, 2, 3, 4, 5, 6, 7, 8>>
  /\ sPad = devPad /\ sPad[1] = 80 /\ lastCall = "advance" /\ steps = 0 /\ holdoff = 255

\* the doTimeslice() calls a session takes from its start to its empty
\* stack: one per yield, and the one that runs into the empty stack
CallsNeeded ==
  CASE session = "reset" -> 3 + 1
    [] session = "read" -> 3 + 80 + 72 + 3 + 1
    [] session = "timing" ->
         LET repeats == startCode[3] * 256 + startCode[4]
         IN  (IF repeats > 1 THEN repeats ELSE 1) + 1
    [] OTHER -> 0

Counted == session \in {"reset", "read", "timing"}

\* C26: a reset, readScratchpad or timing-test session that no session
\* start overwrites comes to an empty stack with StillBusy clear when
\* doTimeslice() keeps being called, whatever the line reads at its
\* samples; every call before the last ends on one yield, and the number
\* of calls is 4 for a reset, 159 for a readScratchpad and the repeat count
\* (at least 1) plus 1 for a timing test.
C26_SessionsComplete ==
  /\ [](Counted =>
          /\ topOfStack = 0 => (BitOf(status, 0) = 0 /\ Yields + 1 = CallsNeeded)
          /\ topOfStack > 0 => (BitOf(status, 0) = 1 /\ Yields < CallsNeeded))
  /\ [][(Counted /\ topOfStack > 0 /\ lastCall' = "advance") =>
          (Yields' = Yields + 1 \/ (Yields' = Yields /\ topOfStack' = 0))]_vars
  /\ (session = "reset") ~> (session = "reset" /\ Ended /\ BitOf(status, 0) = 0)
  /\ (session = "read") ~> (session = "read" /\ Ended /\ BitOf(status, 0) = 0)
  /\ (session = "timing" /\ startCode[3] = 0)
        ~> (session = "timing" /\ Ended /\ BitOf(status, 0) = 0)

\* a readScratchpad session on a bus without device has come to its end in
\* 159 calls
C26_Witness ==
  /\ session = "read" /\ Ended /\ sawAbsent /\ Yields = 158 /\ status = NoDeviceOnBus
  /\ log[6] = <<"sample", 1>>

\* the last thing the session did to the line up to place i of its record:
\* "low", "release", or "none" when it has neither driven nor released it
RECURSIVE DriveBefore(_)
DriveBefore(i) ==
  IF i = 0 THEN "none"
  ELSE IF log[i][1] \in {"low", "release"} THEN log[i][1]
  ELSE DriveBefore(i - 1)

LastDrive == DriveBefore(Len(log))

\* C27: from a released line, whatever the interleaving of session starts
\* and doTimeslice() calls, the controller does not drive the line low
\* when the stack is empty: every session that comes to its end, started
\* from idle or over another session that held the line low, has driven or
\* released the line, and the last time it did so was a release (a sample,
\* which does not drive the line, may follow it).
C27_IdleBusReleased ==
  /\ topOfStack = 0 => ~busLow
  /\ LastDrive # "none" => (busLow <=> LastDrive = "low")
  /\ Ended => LastDrive = "release"

\* a timing test of two pulses has come to its end, the line released after
\* the last pulse
C27_Witness ==
  /\ Ended /\ session = "timing" /\ startCode[4] = 2 /\ ~busLow
  /\ SubSeq(log, Len(log) - 3, Len(log)) =
        << <<"low", 0>>, <<"yield", Micros70>>, <<"release", 0>>, <<"clear", 0>> >>

====
